---- MODULE Spec2Model ----
(***************************************************************************)
(* Release orchestration core of the Model Release Orchestrator            *)
(* (src/App.tsx): the phase variable, the canary metric stream, the        *)
(* anomaly branch of the metric effect, the advisory and decision timers,  *)
(* the audit log and the agent messages.                                   *)
(*                                                                         *)
(* The React component is modelled as a state machine.  A handler is an    *)
(* operator from a state record to a state record (the batched setState    *)
(* calls it makes); an action is a handler, guarded by the render          *)
(* condition of the control that invokes it, followed by the passive       *)
(* effects React runs after the re-render (Settle).  Math.random noise,    *)
(* wall-clock timestamps and generated ids are left out of the samples,    *)
(* log entries and messages: a sample keeps the base values its branch     *)
(* selects and the tickIndex the effect closure read.                      *)
(* The guided tour, the overview dashboard and the settings tab are not    *)
(* modelled.                                                               *)
(***************************************************************************)
EXTENDS Integers, Sequences, FiniteSets

\* ---------------------------------------------------------------- bounds
\* Spec: runs past the anomaly.  LongSpec: runs long enough to fill the
\* metric history.  RepeatSpec: short runs in which the operator repeats a
\* click.  LiveSpec: the fair runs.
MaxTick == 5         \* Spec: the interval is followed up to this tickIndex
MaxClicks == 1       \* Spec: optional operator clicks (see clicks)
MaxLongTick == 20    \* LongSpec: the interval is followed up to this tickIndex
MaxLongClicks == 1   \* LongSpec: optional operator clicks (see clicks)
MaxRepeatTick == 3   \* RepeatSpec: the interval is followed up to this tickIndex
MaxRepeatClicks == 2 \* RepeatSpec: optional operator clicks (see clicks)
MaxLiveTick == 4     \* LiveSpec: the interval is followed up to this tickIndex
MaxLiveClicks == 1   \* LiveSpec: optional operator clicks (see clicks)

\* ------------------------------------------------------------- constants
ANOMALY_TICK_INDEX == 3
HistoryCapacity == 30
WarmupCount == 10
DefaultConfidence == 83
DefaultDuration == 20

IDLE == "IDLE"
SHADOW_TEST == "SHADOW_TEST"
CANARY_SETUP == "CANARY_SETUP"
MONITORING == "MONITORING"
ANOMALY_DETECTED == "ANOMALY_DETECTED"
ROLLBACK_CONFIRM == "ROLLBACK_CONFIRM"
ROLLED_BACK == "ROLLED_BACK"

AppPhase ==
  {IDLE, SHADOW_TEST, CANARY_SETUP, MONITORING, ANOMALY_DETECTED,
   ROLLBACK_CONFIRM, ROLLED_BACK}

BASELINE_MODEL == [version |-> "v2.1", latency_ms |-> 210]
CANDIDATE_MODEL == [version |-> "v3.0", latency_ms |-> 232]
\* error_rate in 1/1000, drift in 1/100
INITIAL_METRICS_STATE == [latency_ms |-> 210, error_rate |-> 8, user_region |-> 2]
ANOMALY_VALUES == [latency |-> 256, error_rate |-> 19, drift_user_region |-> 18]

CanaryChoices == {1, 5, 10}
ConfidenceChoices == {50, 83}
\* What the operator types in the "Duration (min)" input.
DurationChoices == {0, DefaultDuration}

VARIABLES
  phase, shadowTestStatus, metrics, messages, logs, activeModel,
  networkEnabled, canaryPercent, tickIndex,
  showRollbackModal, recommendationTimeout, agentConfidence,
  showReleaseNotes, rolloutDuration,
  simulationInterval,   \* TRUE while the setInterval handle is live
  shadowTimer,          \* TRUE while the 2 s shadow-test timeout is pending
  advisoryTimers,       \* pending advisory setTimeout callbacks, in due order
  timeoutTimer,         \* TRUE while the 60 s decision timeout is pending
  chatTimers,           \* number of pending 1 s chat acknowledgement timeouts
  anomalyTicks          \* history: tickIndex of every run of the anomaly branch

vars ==
  <<phase, shadowTestStatus, metrics, messages, logs, activeModel,
    networkEnabled, canaryPercent, tickIndex,
    showRollbackModal, recommendationTimeout, agentConfidence,
    showReleaseNotes, rolloutDuration,
    simulationInterval, shadowTimer, advisoryTimers, timeoutTimer,
    chatTimers, anomalyTicks>>

\* The component's state as one record: what a handler or effect closure reads.
S ==
  [phase |-> phase, shadowTestStatus |-> shadowTestStatus, metrics |-> metrics,
   messages |-> messages, logs |-> logs, activeModel |-> activeModel,
   networkEnabled |-> networkEnabled,
   canaryPercent |-> canaryPercent, tickIndex |-> tickIndex,
   showRollbackModal |-> showRollbackModal,
   recommendationTimeout |-> recommendationTimeout,
   agentConfidence |-> agentConfidence,
   showReleaseNotes |-> showReleaseNotes, chatTimers |-> chatTimers,
   rolloutDuration |-> rolloutDuration,
   simulationInterval |-> simulationInterval, shadowTimer |-> shadowTimer,
   advisoryTimers |-> advisoryTimers, timeoutTimer |-> timeoutTimer,
   anomalyTicks |-> anomalyTicks]

\* The next state is the record r (bound once, so that it is computed once).
Commit(r) ==
  \E x \in {r} :
    /\ phase' = x.phase
    /\ shadowTestStatus' = x.shadowTestStatus
    /\ metrics' = x.metrics
    /\ messages' = x.messages
    /\ logs' = x.logs
    /\ activeModel' = x.activeModel
    /\ networkEnabled' = x.networkEnabled
    /\ canaryPercent' = x.canaryPercent
    /\ tickIndex' = x.tickIndex
    /\ showRollbackModal' = x.showRollbackModal
    /\ recommendationTimeout' = x.recommendationTimeout
    /\ agentConfidence' = x.agentConfidence
    /\ showReleaseNotes' = x.showReleaseNotes
    /\ chatTimers' = x.chatTimers
    /\ rolloutDuration' = x.rolloutDuration
    /\ simulationInterval' = x.simulationInterval
    /\ shadowTimer' = x.shadowTimer
    /\ advisoryTimers' = x.advisoryTimers
    /\ timeoutTimer' = x.timeoutTimer
    /\ anomalyTicks' = x.anomalyTicks

\* ---------------------------------------------------------------- helpers

\* A log entry's details: the traffic split and the confidence it quotes, each
\* a tuple, empty when the text quotes none.
NoSplit == <<>>
NoConfidence == <<>>

LogEntry(event, split, confidence, type) ==
  [event |-> event, split |-> split, confidence |-> confidence, type |-> type]

\* addLog: the new entry is put in front (newest first).
addLog(s, event, split, confidence, type) ==
  [s EXCEPT !.logs = <<LogEntry(event, split, confidence, type)>> \o @]

AgentMessage(text, type, sender, confidence, risk) ==
  [text |-> text, type |-> type, sender |-> sender,
   confidence |-> confidence, risk |-> risk]

\* addAgentMessage: the new message is put at the end.
addAgentMessage(s, text, type, confidence, risk) ==
  [s EXCEPT !.messages =
              @ \o <<AgentMessage(text, type, "Terra", confidence, risk)>>]

\* Mutant of NewPoint: the threshold test is strict.
NewPointStrictThreshold(t) ==
  LET isAnomaly == t > ANOMALY_TICK_INDEX
  IN [live |-> TRUE,
      tick |-> t,
      latency |-> IF isAnomaly THEN ANOMALY_VALUES.latency
                  ELSE BASELINE_MODEL.latency_ms,
      error_rate |-> IF isAnomaly THEN ANOMALY_VALUES.error_rate
                     ELSE INITIAL_METRICS_STATE.error_rate,
      drift_user_region |-> IF isAnomaly THEN ANOMALY_VALUES.drift_user_region
                            ELSE INITIAL_METRICS_STATE.user_region]

\* The sample the metric effect builds; t is the tickIndex its closure read.
NewPoint(t) ==
  LET isAnomaly == t >= ANOMALY_TICK_INDEX
  IN [live |-> TRUE,
      tick |-> t,
      latency |-> IF isAnomaly THEN ANOMALY_VALUES.latency
                  ELSE BASELINE_MODEL.latency_ms,
      error_rate |-> IF isAnomaly THEN ANOMALY_VALUES.error_rate
                     ELSE INITIAL_METRICS_STATE.error_rate,
      drift_user_region |-> IF isAnomaly THEN ANOMALY_VALUES.drift_user_region
                            ELSE INITIAL_METRICS_STATE.user_region]

\* startSimulation's initialData: ten baseline samples labelled 00:00 .. 00:09.
initialData ==
  [i \in 1..WarmupCount |->
     [live |-> FALSE,
      tick |-> i - 1,
      latency |-> BASELINE_MODEL.latency_ms,
      error_rate |-> INITIAL_METRICS_STATE.error_rate,
      drift_user_region |-> INITIAL_METRICS_STATE.user_region]]

\* Mutant of PushMetric: the shift is forgotten.
PushMetricNoEviction(prev, newPoint) == Append(prev, newPoint)

\* setMetrics(prev => ...): append, then shift when longer than 30.
PushMetric(prev, newPoint) ==
  LET next == Append(prev, newPoint)
  IN IF Len(next) > HistoryCapacity THEN Tail(next) ELSE next

\* ---------------------------------------------------------------- effects
\* An effect reads the values of the render it belongs to (c) and queues
\* functional updates, applied here to the accumulated record a.

\* Mutant of AdvisorySequence: the recommendation has the shortest delay.
AdvisorySequenceRecommendationFirst == <<"recommendation", "alert", "detail">>

\* The three advisory setTimeout calls (500 ms, 1500 ms, 3000 ms), in due order.
AdvisorySequence == <<"alert", "detail", "recommendation">>

\* The body of "if (tickIndex === ANOMALY_TICK_INDEX && phase === MONITORING)".
AnomalyBranch(c, a) ==
  addLog([a EXCEPT !.phase = ANOMALY_DETECTED,
                   !.agentConfidence = DefaultConfidence,
                   !.advisoryTimers = @ \o AdvisorySequence,
                   !.anomalyTicks = Append(@, c.tickIndex)],
         "Anomaly Detected", NoSplit, NoConfidence, "warning")

\* Mutant of SamplerActive: the phase test is dropped from the guard.
SamplerActiveAnyPhase(c) == c.networkEnabled

\* Mutant of SamplerActive: the network test is dropped from the guard.
SamplerActiveOffline(c) == c.phase = MONITORING \/ c.phase = ANOMALY_DETECTED

\* The guard of the metric effect: it returns early unless this holds.
SamplerActive(c) ==
  (c.phase = MONITORING \/ c.phase = ANOMALY_DETECTED) /\ c.networkEnabled

\* The condition of the anomaly branch.
AnomalyConfirmed(c) ==
  c.tickIndex = ANOMALY_TICK_INDEX /\ c.phase = MONITORING

\* "Metric Generation Effect (Canary Flow)"
MetricEffect(c, a) ==
  IF ~SamplerActive(c) THEN a
  ELSE LET a1 == [a EXCEPT !.metrics = PushMetric(@, NewPoint(c.tickIndex))]
       IN IF AnomalyConfirmed(c) THEN AnomalyBranch(c, a1) ELSE a1

\* Mutant of TimeoutEffect: the 60 s timer is never set.
TimeoutEffectNeverArms(c, a) ==
  [a EXCEPT !.timeoutTimer = FALSE, !.recommendationTimeout = FALSE]

\* "Timeout Warning Logic": the cleanup of the previous run clears its timer,
\* then the 60 s timer is set in ANOMALY_DETECTED, the flag cleared otherwise.
TimeoutEffect(c, a) ==
  IF c.phase = ANOMALY_DETECTED
  THEN [a EXCEPT !.timeoutTimer = TRUE]
  ELSE [a EXCEPT !.timeoutTimer = FALSE, !.recommendationTimeout = FALSE]

\* The effects of the render of cur, the previous render being prev: an effect
\* runs when one of its dependencies differs between the two renders.
EffectPass(prev, cur) ==
  LET a1 == IF prev.tickIndex # cur.tickIndex \/ prev.phase # cur.phase
               \/ prev.networkEnabled # cur.networkEnabled
            THEN MetricEffect(cur, cur) ELSE cur
  IN IF prev.phase # cur.phase THEN TimeoutEffect(cur, a1) ELSE a1

\* Re-render and run effects until nothing changes: an effect that sets state
\* (the anomaly branch sets phase) causes one more render and effect pass.
\* s2 and s3 are the intermediate renders, each bound once.
Settle(prev, cur) ==
  LET settled ==
        UNION {{EffectPass(s2, s3) : s3 \in {EffectPass(cur, s2)}} :
               s2 \in {EffectPass(prev, cur)}}
  IN CHOOSE s \in settled : TRUE

\* --------------------------------------------------------------- handlers

handleStartGuided(s) ==
  LET s1 == [s EXCEPT !.phase = SHADOW_TEST, !.shadowTestStatus = "running",
                      !.shadowTimer = TRUE]
      s2 == addLog(s1, "Shadow Test Initiated", NoSplit, NoConfidence, "info")
  IN addAgentMessage(s2, "greeting", "normal", NoConfidence, "")

\* The setTimeout callback of handleStartGuided ("Auto-resolve after 2s").
shadowTestCallback(s) ==
  LET s1 == [s EXCEPT !.shadowTestStatus = "complete", !.shadowTimer = FALSE]
      s2 == addLog(s1, "Shadow Test Completed", NoSplit, NoConfidence, "success")
  IN addAgentMessage(s2, "shadow test stable", "success", NoConfidence, "")

\* Mutant of handleContinueToSetup: the setup phase is skipped.
handleContinueToSetupSkipsSetup(s) == [s EXCEPT !.phase = MONITORING]

handleContinueToSetup(s) == [s EXCEPT !.phase = CANARY_SETUP]

\* Mutant of startSimulation: the warm-up samples are forgotten.
startSimulationEmptyHistory(s) ==
  [s EXCEPT !.metrics = <<>>, !.tickIndex = 0, !.simulationInterval = TRUE]

\* Mutant of startSimulation: the history of the last run is kept.
startSimulationKeepsHistory(s) ==
  [s EXCEPT !.tickIndex = 0, !.simulationInterval = TRUE]

startSimulation(s) ==
  [s EXCEPT !.metrics = initialData, !.tickIndex = 0,
            !.simulationInterval = TRUE]

\* The setInterval callback of startSimulation.
intervalCallback(s) == [s EXCEPT !.tickIndex = @ + 1]

handleStartCanary(s) ==
  LET s1 == [s EXCEPT !.phase = MONITORING,
                      !.activeModel = "v2.1 (95%) / v3.0 (5%)"]
      s2 == addLog(s1, "Canary Rollout Started", <<95, 5>>, NoConfidence, "info")
  IN startSimulation(s2)

handleRollbackClick(s) == [s EXCEPT !.showRollbackModal = TRUE]

\* The Cancel button of the rollback modal.
cancelRollback(s) == [s EXCEPT !.showRollbackModal = FALSE]

\* Mutant of handleContinueRollout: the timeout flag is left as it is.
handleContinueRolloutKeepsTimeout(s) ==
  LET s2 == addLog(s, "Rollout Continued", NoSplit, <<s.agentConfidence>>, "warning")
  IN addAgentMessage(s2, "continuing rollout", "normal", NoConfidence, "")

\* Mutant of handleContinueRollout: the log quotes the default confidence.
handleContinueRolloutDefaultConfidence(s) ==
  LET s1 == [s EXCEPT !.recommendationTimeout = FALSE]
      s2 == addLog(s1, "Rollout Continued", NoSplit, <<DefaultConfidence>>, "warning")
  IN addAgentMessage(s2, "continuing rollout", "normal", NoConfidence, "")

handleContinueRollout(s) ==
  LET s1 == [s EXCEPT !.recommendationTimeout = FALSE]
      s2 == addLog(s1, "Rollout Continued", NoSplit, <<s.agentConfidence>>, "warning")
  IN addAgentMessage(s2, "continuing rollout", "normal", NoConfidence, "")

\* Mutant of confirmRollback: the audit log entry is forgotten.
confirmRollbackNoLog(s) ==
  LET s1 == [s EXCEPT !.simulationInterval = FALSE, !.phase = ROLLED_BACK,
                      !.showRollbackModal = FALSE,
                      !.activeModel = BASELINE_MODEL.version,
                      !.recommendationTimeout = FALSE]
  IN addAgentMessage(s1, "rollback completed", "success", NoConfidence, "")

confirmRollback(s) ==
  LET s1 == [s EXCEPT !.simulationInterval = FALSE, !.phase = ROLLED_BACK,
                      !.showRollbackModal = FALSE,
                      !.activeModel = BASELINE_MODEL.version,
                      !.recommendationTimeout = FALSE]
      s2 == addLog(s1, "Rollback Executed", NoSplit, <<s.agentConfidence>>, "error")
  IN addAgentMessage(s2, "rollback completed", "success", NoConfidence, "")

toggleNetwork(s) ==
  LET newState == ~s.networkEnabled
      s1 == [s EXCEPT !.networkEnabled = newState]
  IN IF ~newState
     THEN addLog(s1, "Network Failure", NoSplit, NoConfidence, "warning")
     ELSE addLog(s1, "Network Restored", NoSplit, NoConfidence, "success")

\* Mutant of replayTimeline: the replay starts monitoring anew.
replayTimelineEntersMonitoring(s) ==
  addLog(startSimulation([s EXCEPT !.tickIndex = 0, !.phase = MONITORING]),
         "Replay", NoSplit, NoConfidence, "info")

\* Mutant of replayTimeline: the session reset also empties the stores.
replayTimelineClearsStores(s) ==
  addLog(startSimulation([s EXCEPT !.tickIndex = 0, !.logs = <<>>,
                                   !.messages = <<>>]),
         "Replay", NoSplit, NoConfidence, "info")

replayTimeline(s) ==
  addLog(startSimulation([s EXCEPT !.tickIndex = 0]),
         "Replay", NoSplit, NoConfidence, "info")

generateNotes(s) ==
  addLog([s EXCEPT !.showReleaseNotes = TRUE],
         "Release Notes Generated", NoSplit, NoConfidence, "success")

\* The Close buttons of the release notes dialog.
closeReleaseNotes(s) == [s EXCEPT !.showReleaseNotes = FALSE]

\* The operator's own message is appended and the 1 s acknowledgement is set.
handleChatSubmit(s) ==
  [s EXCEPT !.messages =
              @ \o <<AgentMessage("query", "normal", "User", NoConfidence, "")>>,
            !.chatTimers = @ + 1]

\* The setTimeout callback of handleChatSubmit.
chatReplyCallback(s) ==
  addAgentMessage([s EXCEPT !.chatTimers = @ - 1],
                  "query received", "normal", NoConfidence, "")

\* The callback of the first pending advisory setTimeout.
advisoryCallback(s) ==
  LET which == Head(s.advisoryTimers)
      s1 == [s EXCEPT !.advisoryTimers = Tail(@)]
  IN IF which = "recommendation"
     THEN addAgentMessage(s1, which, "recommendation", <<DefaultConfidence>>, "High")
     ELSE addAgentMessage(s1, which, "alert", NoConfidence, "")

\* Mutant of timeoutCallback: the timeout rolls back by itself.
timeoutCallbackAutoRollback(s) ==
  [s EXCEPT !.recommendationTimeout = TRUE, !.timeoutTimer = FALSE,
            !.phase = ROLLED_BACK, !.simulationInterval = FALSE]

\* The callback of the 60 s timer of the timeout effect.
timeoutCallback(s) ==
  [s EXCEPT !.recommendationTimeout = TRUE, !.timeoutTimer = FALSE]

\* ---------------------------------------------------------------- actions
\* The guard of an action is the condition under which the source renders
\* (and enables) the control that calls the handler, or under which the timer
\* is pending.  The rollback modal is a full-screen overlay above the page:
\* while it is shown only its own two buttons can be clicked.

Step(r) == Commit(Settle(S, r))

\* The audit log entries of the given events.
LogCount(events) == Cardinality({i \in 1..Len(logs) : logs[i].event \in events})

toggles == LogCount({"Network Failure", "Network Restored"})
replays == LogCount({"Replay"})
continues == LogCount({"Rollout Continued"})
notes == LogCount({"Release Notes Generated"})
chats == Cardinality({i \in 1..Len(messages) : messages[i].sender = "User"})

\* 1 when the operator has typed a duration other than the initial one.
edits == IF rolloutDuration = DefaultDuration THEN 0 ELSE 1

\* The optional operator inputs so far (each leaves one audit log entry, one
\* message of the operator or an edited duration).
clicks == toggles + replays + continues + notes + chats + edits

\* No dialog lies over the page.
NoOverlay == ~showRollbackModal /\ ~showReleaseNotes

StartGuided ==
  /\ phase = IDLE
  /\ Step(handleStartGuided(S))

ShadowTestComplete ==
  /\ shadowTimer
  /\ Step(shadowTestCallback(S))

ContinueToSetup ==
  /\ phase = SHADOW_TEST
  /\ shadowTestStatus # "running"
  /\ Step(handleContinueToSetup(S))

SetCanaryPercent ==
  /\ phase = CANARY_SETUP
  /\ \E pct \in CanaryChoices : Step([S EXCEPT !.canaryPercent = pct])

\* The onChange of the duration input; typing the initial value back costs
\* nothing.
SetRolloutDuration(maxClicks) ==
  /\ phase = CANARY_SETUP
  /\ \E d \in DurationChoices :
       /\ d = DefaultDuration \/ clicks - edits < maxClicks
       /\ Step([S EXCEPT !.rolloutDuration = d])

StartCanary ==
  /\ phase = CANARY_SETUP
  /\ Step(handleStartCanary(S))

Tick(maxTick) ==
  /\ simulationInterval
  /\ tickIndex < maxTick
  /\ Step(intervalCallback(S))

AdvisoryTimerFires ==
  /\ advisoryTimers # <<>>
  /\ Step(advisoryCallback(S))

\* The 60 s timer is set in the same task as the advisory timers (at most
\* 3 s), so it fires after them.
DecisionTimeoutFires ==
  /\ timeoutTimer
  /\ advisoryTimers = <<>>
  /\ Step(timeoutCallback(S))

AdjustConfidence ==
  /\ phase = ANOMALY_DETECTED
  /\ NoOverlay
  /\ \E v \in ConfidenceChoices : Step([S EXCEPT !.agentConfidence = v])

\* Mutant of RollbackClick: the decision box is rendered in every phase.
RollbackClickAnyPhase ==
  /\ NoOverlay
  /\ Step(handleRollbackClick(S))

RollbackClick ==
  /\ phase = ANOMALY_DETECTED
  /\ NoOverlay
  /\ Step(handleRollbackClick(S))

CancelRollback ==
  /\ showRollbackModal
  /\ Step(cancelRollback(S))

ConfirmRollback ==
  /\ showRollbackModal
  /\ Step(confirmRollback(S))

ContinueRollout(maxClicks) ==
  /\ phase = ANOMALY_DETECTED
  /\ NoOverlay
  /\ clicks < maxClicks
  /\ Step(handleContinueRollout(S))

ToggleNetwork(maxClicks) ==
  /\ NoOverlay
  /\ clicks < maxClicks
  /\ Step(toggleNetwork(S))

Replay(maxClicks) ==
  /\ phase = ROLLED_BACK \/ phase = ANOMALY_DETECTED
  /\ NoOverlay
  /\ clicks < maxClicks
  /\ Step(replayTimeline(S))

GenerateNotes(maxClicks) ==
  /\ phase = ROLLED_BACK
  /\ NoOverlay
  /\ clicks < maxClicks
  /\ Step(generateNotes(S))

CloseReleaseNotes ==
  /\ showReleaseNotes
  /\ Step(closeReleaseNotes(S))

ChatSubmit(maxClicks) ==
  /\ NoOverlay
  /\ clicks < maxClicks
  /\ Step(handleChatSubmit(S))

ChatReplyFires ==
  /\ chatTimers > 0
  /\ Step(chatReplyCallback(S))

\* The state after mount.  networkEnabled and the default canary percent,
\* which seeds canaryPercent, come from localStorage.
Init ==
  /\ phase = IDLE
  /\ shadowTestStatus = "idle"
  /\ metrics = <<>>
  /\ messages = <<>>
  /\ logs = <<>>
  /\ activeModel = BASELINE_MODEL.version
  /\ networkEnabled \in BOOLEAN
  /\ canaryPercent \in CanaryChoices
  /\ tickIndex = 0
  /\ showRollbackModal = FALSE
  /\ recommendationTimeout = FALSE
  /\ agentConfidence = DefaultConfidence
  /\ showReleaseNotes = FALSE
  /\ chatTimers = 0
  /\ rolloutDuration = DefaultDuration
  /\ simulationInterval = FALSE
  /\ shadowTimer = FALSE
  /\ advisoryTimers = <<>>
  /\ timeoutTimer = FALSE
  /\ anomalyTicks = <<>>

Next ==
  \/ StartGuided
  \/ ShadowTestComplete
  \/ ContinueToSetup
  \/ SetCanaryPercent
  \/ StartCanary
  \/ Tick(MaxTick)
  \/ AdvisoryTimerFires
  \/ DecisionTimeoutFires
  \/ AdjustConfidence
  \/ RollbackClick
  \/ CancelRollback
  \/ ConfirmRollback
  \/ ContinueRollout(MaxClicks)
  \/ ToggleNetwork(MaxClicks)
  \/ Replay(MaxClicks)
  \/ GenerateNotes(MaxClicks)
  \/ CloseReleaseNotes
  \/ ChatSubmit(MaxClicks)
  \/ SetRolloutDuration(MaxClicks)
  \/ ChatReplyFires

Spec == Init /\ [][Next]_vars

LongNext ==
  \/ StartGuided
  \/ ShadowTestComplete
  \/ ContinueToSetup
  \/ SetCanaryPercent
  \/ StartCanary
  \/ Tick(MaxLongTick)
  \/ AdvisoryTimerFires
  \/ DecisionTimeoutFires
  \/ AdjustConfidence
  \/ RollbackClick
  \/ CancelRollback
  \/ ConfirmRollback
  \/ ContinueRollout(MaxLongClicks)
  \/ ToggleNetwork(MaxLongClicks)
  \/ Replay(MaxLongClicks)
  \/ GenerateNotes(MaxLongClicks)
  \/ CloseReleaseNotes
  \/ ChatSubmit(MaxLongClicks)
  \/ SetRolloutDuration(MaxLongClicks)
  \/ ChatReplyFires

LongSpec == Init /\ [][LongNext]_vars

RepeatNext ==
  \/ StartGuided
  \/ ShadowTestComplete
  \/ ContinueToSetup
  \/ SetCanaryPercent
  \/ StartCanary
  \/ Tick(MaxRepeatTick)
  \/ AdvisoryTimerFires
  \/ DecisionTimeoutFires
  \/ AdjustConfidence
  \/ RollbackClick
  \/ CancelRollback
  \/ ConfirmRollback
  \/ ContinueRollout(MaxRepeatClicks)
  \/ ToggleNetwork(MaxRepeatClicks)
  \/ Replay(MaxRepeatClicks)
  \/ GenerateNotes(MaxRepeatClicks)
  \/ CloseReleaseNotes
  \/ ChatSubmit(MaxRepeatClicks)
  \/ SetRolloutDuration(MaxRepeatClicks)
  \/ ChatReplyFires

RepeatSpec == Init /\ [][RepeatNext]_vars

LiveNext ==
  \/ StartGuided
  \/ ShadowTestComplete
  \/ ContinueToSetup
  \/ SetCanaryPercent
  \/ StartCanary
  \/ Tick(MaxLiveTick)
  \/ AdvisoryTimerFires
  \/ DecisionTimeoutFires
  \/ AdjustConfidence
  \/ RollbackClick
  \/ CancelRollback
  \/ ConfirmRollback
  \/ ContinueRollout(MaxLiveClicks)
  \/ ToggleNetwork(MaxLiveClicks)
  \/ Replay(MaxLiveClicks)
  \/ GenerateNotes(MaxLiveClicks)
  \/ CloseReleaseNotes
  \/ ChatSubmit(MaxLiveClicks)
  \/ SetRolloutDuration(MaxLiveClicks)
  \/ ChatReplyFires

\* The runs in which the event loop keeps its guarantee: a pending
\* setTimeout callback that is not cleared is eventually run.
LiveSpec ==
  /\ Init
  /\ [][LiveNext]_vars
  /\ WF_vars(AdvisoryTimerFires)
  /\ WF_vars(DecisionTimeoutFires)

\* ----------------------------------------------------------------- claims

\* The rows of the transition table of the release phase machine, as
\* <<phase, action intent>>; replay is listed for the monitoring-adjacent
\* phases.
TransitionTable ==
  {<<IDLE, "startGuidedRelease">>,
   <<SHADOW_TEST, "continueToSetup">>,
   <<CANARY_SETUP, "startCanary">>,
   <<ANOMALY_DETECTED, "requestRollback">>,
   <<ROLLBACK_CONFIRM, "confirmRollback">>,
   <<ROLLBACK_CONFIRM, "cancelRollback">>,
   <<ANOMALY_DETECTED, "continueRollout">>,
   <<MONITORING, "replay">>,
   <<ANOMALY_DETECTED, "replay">>,
   <<ROLLED_BACK, "replay">>}

ActionIntents ==
  {"startGuidedRelease", "continueToSetup", "startCanary", "requestRollback",
   "confirmRollback", "cancelRollback", "continueRollout", "replay"}

\* The state the component settles in when the handler of the intent is
\* called in the current state.
Invoke(intent) ==
  Settle(S,
    CASE intent = "startGuidedRelease" -> handleStartGuided(S)
      [] intent = "continueToSetup" -> handleContinueToSetup(S)
      [] intent = "startCanary" -> handleStartCanary(S)
      [] intent = "requestRollback" -> handleRollbackClick(S)
      [] intent = "confirmRollback" -> confirmRollback(S)
      [] intent = "cancelRollback" -> cancelRollback(S)
      [] intent = "continueRollout" -> handleContinueRollout(S)
      [] intent = "replay" -> replayTimeline(S))

\* C1: an action intent invoked in a phase for which the transition table has
\* no row is rejected: the call leaves the phase
\* as it was.
C1_InvalidTransitionRejected ==
  \A intent \in ActionIntents :
    <<phase, intent>> \notin TransitionTable => Invoke(intent).phase = phase

\* C2: the phase becomes ROLLED_BACK only by the operator's confirmRollback;
\* the sampler tick, the advisory timers and the decision timeout never set
\* it, and the decision timeout changes the timedOut flag alone.
C2_RollbackOnlyByOperator ==
  [][/\ (phase # ROLLED_BACK /\ phase' = ROLLED_BACK) => ConfirmRollback
     /\ DecisionTimeoutFires =>
          /\ recommendationTimeout'
          /\ UNCHANGED <<phase, shadowTestStatus, metrics, messages, logs,
                         activeModel, networkEnabled, canaryPercent, tickIndex,
                         showRollbackModal, agentConfidence, showReleaseNotes,
                         rolloutDuration,
                         simulationInterval, shadowTimer, advisoryTimers,
                         chatTimers, anomalyTicks>>]_vars

\* C2 witness: the decision timeout has fired and the phase is still
\* ANOMALY_DETECTED, the rollback prompt waiting for the operator.
C2_Witness ==
  recommendationTimeout /\ phase = ANOMALY_DETECTED /\ showRollbackModal

\* C3: on the setup path the phase follows the table: IDLE to SHADOW_TEST by
\* startGuidedRelease, the shadow-test timer flips running to complete and
\* leaves the phase, SHADOW_TEST to CANARY_SETUP by continueToSetup,
\* CANARY_SETUP to MONITORING by startCanary; no other phase change leaves
\* one of these three phases.
C3_SetupPath ==
  [][/\ StartGuided =>
          phase = IDLE /\ phase' = SHADOW_TEST /\ shadowTestStatus' = "running"
     /\ ShadowTestComplete =>
          /\ shadowTestStatus = "running" /\ shadowTestStatus' = "complete"
          /\ phase' = phase
     /\ ContinueToSetup => phase = SHADOW_TEST /\ phase' = CANARY_SETUP
     /\ StartCanary => phase = CANARY_SETUP /\ phase' = MONITORING
     /\ (phase \in {IDLE, SHADOW_TEST, CANARY_SETUP} /\ phase' # phase) =>
          <<phase, phase'>> \in {<<IDLE, SHADOW_TEST>>,
                                 <<SHADOW_TEST, CANARY_SETUP>>,
                                 <<CANARY_SETUP, MONITORING>>}]_vars

\* C3 witness: monitoring has started after a completed shadow test.
C3_Witness ==
  phase = MONITORING /\ shadowTestStatus = "complete" /\ simulationInterval

\* C4: requestRollback puts the phase in ROLLBACK_CONFIRM, where it stays
\* while the confirmation prompt is open.
C4_PromptIsRollbackConfirm ==
  showRollbackModal => phase = ROLLBACK_CONFIRM

LiveCount(m) == Cardinality({i \in 1..Len(m) : m[i].live})

\* C5: confirmRollback leaves the phase ROLLED_BACK, and no step taken in
\* ROLLED_BACK adds a live sample to the metric history.
C5_NoSamplesAfterRollback ==
  [][/\ ConfirmRollback => phase' = ROLLED_BACK
     /\ phase = ROLLED_BACK =>
          /\ metrics' = metrics \/ metrics' = initialData
          /\ LiveCount(metrics') <= LiveCount(metrics)]_vars

\* C5 witness: rolled back, then replayed with the network enabled: the
\* interval has ticked and the history holds the warm-up samples only.
C5_Witness ==
  /\ phase = ROLLED_BACK /\ networkEnabled /\ simulationInterval
  /\ tickIndex >= 2 /\ metrics = initialData

MonitoringSession == {MONITORING, ANOMALY_DETECTED, ROLLED_BACK}

\* C6: anomaly-confirmed is raised exactly once per monitoring session, at
\* tickIndex 3: never at another tickIndex, never twice, and it has been
\* raised once the session's tickIndex has passed 3.
C6_AnomalyExactlyOnce ==
  /\ \A i \in 1..Len(anomalyTicks) : anomalyTicks[i] = ANOMALY_TICK_INDEX
  /\ Len(anomalyTicks) <= 1
  /\ (phase \in MonitoringSession /\ tickIndex > ANOMALY_TICK_INDEX) =>
       Len(anomalyTicks) = 1

\* The scenario of C7 so far: canary percent 5, the network enabled from the
\* start and never toggled, no replay, no rollback.
CleanRun ==
  /\ phase \in {MONITORING, ANOMALY_DETECTED}
  /\ canaryPercent = 5 /\ networkEnabled /\ toggles = 0 /\ replays = 0

\* C7: in the scenario, after 4 sampler ticks the anomaly has been confirmed
\* on tick 3, the phase is ANOMALY_DETECTED and the history holds 14 samples.
C7_ScenarioHistory ==
  (CleanRun /\ tickIndex = 4) =>
     /\ phase = ANOMALY_DETECTED
     /\ anomalyTicks = <<ANOMALY_TICK_INDEX>>
     /\ Len(metrics) = WarmupCount + 4

\* A step in which the metric effect appended a sample to the history it
\* found (the history was not reset by startSimulation in the same step).
SampleAppended ==
  /\ tickIndex' # tickIndex \/ phase' # phase \/ networkEnabled' # networkEnabled
  /\ phase' \in {MONITORING, ANOMALY_DETECTED} /\ networkEnabled'
  /\ phase # CANARY_SETUP /\ replays' = replays

\* C8: the history never holds more than 30 samples; a sample appended to a
\* full history becomes its last element and evicts exactly the oldest one,
\* the others keeping their order.
C8_BoundedFifoHistory ==
  /\ [](Len(metrics) <= HistoryCapacity)
  /\ [][SampleAppended =>
          /\ metrics'[Len(metrics')] = NewPoint(tickIndex')
          /\ Len(metrics) = HistoryCapacity =>
               /\ Len(metrics') = HistoryCapacity
               /\ SubSeq(metrics', 1, HistoryCapacity - 1) = Tail(metrics)]_vars

\* C8 witness: a full history whose oldest warm-up sample has been evicted.
C8_Witness ==
  Len(metrics) = HistoryCapacity /\ metrics[1] # initialData[1]

\* C9: replay moves the phase to MONITORING.
C9_ReplayEntersMonitoring ==
  [][replays' # replays => phase' = MONITORING]_vars

\* C10: startCanary and replay reset tickIndex to 0 and the history to the 10
\* warm-up samples; the only sample that may follow them in the same step is
\* the new run's live sample of tick 0.
C10_RestartResetsHistory ==
  [][(StartCanary \/ replays' # replays) =>
        /\ tickIndex' = 0
        /\ metrics' = initialData \/ metrics' = Append(initialData, NewPoint(0))
        /\ \A i \in 1..WarmupCount :
             ~metrics'[i].live /\ metrics'[i].latency = BASELINE_MODEL.latency_ms]_vars

\* C10 witness: a replay during an anomaly episode has reset the history.
C10_Witness ==
  /\ replays = 1 /\ phase = ANOMALY_DETECTED /\ tickIndex = 0
  /\ metrics = Append(initialData, NewPoint(0)) /\ Len(anomalyTicks) = 1

\* A step that starts and ends with the network disabled, or disables it,
\* during MONITORING or ANOMALY_DETECTED.
OfflineStep ==
  /\ ~networkEnabled'
  /\ phase \in {MONITORING, ANOMALY_DETECTED}

\* C11 (as stated): while networkEnabled is false during MONITORING or
\* ANOMALY_DETECTED the metric history does not change at all.
C11_HistoryFrozenWhileOffline ==
  [][OfflineStep => metrics' = metrics]_vars

\* C11 (amended): while networkEnabled is false during MONITORING or
\* ANOMALY_DETECTED no sample is appended; the history changes only when
\* the operator replays, which resets it to the warm-up samples.
C11_NoSampleWhileOffline ==
  [][OfflineStep =>
       \/ metrics' = metrics
       \/ replays' # replays /\ metrics' = initialData]_vars

\* C11 witness: the network was disabled after the sample of tick 0 and the
\* interval has ticked twice since; the history is the one of the outage's
\* start.
C11_Witness ==
  /\ ~networkEnabled /\ toggles = 1 /\ phase = MONITORING /\ tickIndex = 2
  /\ metrics = Append(initialData, NewPoint(0))

\* C12: an interval tick while networkEnabled is false does not advance
\* tickIndex.
C12_OfflineTickSkipped ==
  [][(~networkEnabled /\ ~networkEnabled' /\ replays' = replays) =>
       tickIndex' = tickIndex]_vars

\* A resolving action of the anomaly episode has been taken.
Resolved == LogCount({"Rollout Continued", "Rollback Executed"}) > 0

\* C13: once the anomaly episode is resolved by confirmRollback or
\* continueRollout, no advisory timer and no decision timeout fires.
C13_NoStaleTimers ==
  [][Resolved => ~AdvisoryTimerFires /\ ~DecisionTimeoutFires]_vars

\* C14: a second continueRollout in the same anomaly episode changes nothing
\* but the audit log: phase, timedOut, the agent messages and the metric
\* history stay as they were.
C14_SecondContinueIdempotent ==
  [][(continues >= 1 /\ continues' = continues + 1) =>
       /\ phase' = phase
       /\ recommendationTimeout' = recommendationTimeout
       /\ messages' = messages
       /\ metrics' = metrics]_vars

\* C15: continueRollout is taken in ANOMALY_DETECTED and leaves the phase
\* there; right after it the first (newest) audit log entry is "Rollout
\* Continued" and quotes the agentConfidence the operator had set when
\* clicking.
C15_ContinueLogsConfidence ==
  [][continues' # continues =>
       /\ phase = ANOMALY_DETECTED /\ phase' = ANOMALY_DETECTED
       /\ logs'[1].event = "Rollout Continued"
       /\ logs'[1].confidence = <<agentConfidence>>
       /\ Tail(logs') = logs]_vars

\* C15 witness: the rollout was continued with the confidence moved away
\* from its default, and the newest entry quotes the moved value.
C15_Witness ==
  /\ phase = ANOMALY_DETECTED /\ agentConfidence # DefaultConfidence
  /\ logs # <<>> /\ logs[1].event = "Rollout Continued"
  /\ logs[1].confidence = <<agentConfidence>>

\* C16: right after confirmRollback the first (newest) audit log entry is
\* "Rollback Executed", put in front of the entries there were.
C16_RollbackLoggedFirst ==
  [][ConfirmRollback =>
       /\ logs'[1].event = "Rollback Executed"
       /\ Tail(logs') = logs]_vars

\* C16 witness: the rollback has just been confirmed.
C16_Witness ==
  /\ phase = ROLLED_BACK /\ ~simulationInterval
  /\ logs # <<>> /\ logs[1].event = "Rollback Executed"

\* C17: ANOMALY_DETECTED is entered from MONITORING only, and ROLLED_BACK
\* from ANOMALY_DETECTED or ROLLBACK_CONFIRM only.
C17_Predecessors ==
  [][/\ (phase' = ANOMALY_DETECTED /\ phase # ANOMALY_DETECTED) =>
          phase = MONITORING
     /\ (phase' = ROLLED_BACK /\ phase # ROLLED_BACK) =>
          phase \in {ANOMALY_DETECTED, ROLLBACK_CONFIRM}]_vars

\* C17 witness: both phases have been entered: the anomaly branch has run
\* and the rollback was confirmed.
C17_Witness ==
  /\ phase = ROLLED_BACK /\ Len(anomalyTicks) = 1
  /\ activeModel = BASELINE_MODEL.version

IsPrefix(old, new) ==
  Len(old) <= Len(new) /\ SubSeq(new, 1, Len(old)) = old

IsSuffix(old, new) ==
  Len(old) <= Len(new)
    /\ SubSeq(new, Len(new) - Len(old) + 1, Len(new)) = old

\* C18: no step removes or reorders an audit log entry or a message: new
\* log entries are put in front of the old ones (newest first), new
\* messages behind the old ones (creation order).
C18_AppendOnlyStores ==
  [][IsSuffix(logs, logs') /\ IsPrefix(messages, messages')]_vars

\* C18 witness: a replay after the rollback: its entry is the newest of six
\* and the six messages since the greeting are still there.
C18_Witness ==
  /\ phase = ROLLED_BACK /\ replays = 1
  /\ Len(logs) = 6 /\ logs[1].event = "Replay"
  /\ logs[6].event = "Shadow Test Initiated"
  /\ Len(messages) = 6 /\ messages[1].text = "greeting"

\* C19: the interval of the sampler is live only in MONITORING and
\* ANOMALY_DETECTED; in ROLLED_BACK, also after a replay, it is not.
C19_IntervalOnlyWhileMonitoring ==
  simulationInterval => phase \in {MONITORING, ANOMALY_DETECTED}

\* C20: if the phase stays ANOMALY_DETECTED and the operator neither confirms
\* a rollback nor continues the rollout, the 60 s timer elapses and
\* recommendationTimeout (timedOut) becomes true.
C20_TimeoutSetsTimedOut ==
  (phase = ANOMALY_DETECTED /\ ~Resolved) ~> (recommendationTimeout \/ Resolved)

\* C20 witness: the timer has elapsed in ANOMALY_DETECTED with no decision
\* taken and no prompt open.
C20_Witness ==
  /\ phase = ANOMALY_DETECTED /\ ~Resolved /\ NoOverlay
  /\ recommendationTimeout /\ ~timeoutTimer

\* C21: startCanary with a non-positive rollout duration or a canary percent
\* outside {1, 5, 10} is refused: the phase stays CANARY_SETUP and no
\* interval is started.
C21_InvalidConfigurationRejected ==
  [][(StartCanary /\ (rolloutDuration <= 0 \/ canaryPercent \notin CanaryChoices)) =>
       phase' = CANARY_SETUP /\ ~simulationInterval']_vars

\* C22: no two live samples of a run are produced for the same tickIndex,
\* also when the phase changes to ANOMALY_DETECTED and when the network is
\* re-enabled.
C22_OneSamplePerTick ==
  \A i, j \in 1..Len(metrics) :
    (i < j /\ metrics[i].live /\ metrics[j].live) =>
       metrics[i].tick # metrics[j].tick

AnomalyShaped(p) ==
  /\ p.latency = ANOMALY_VALUES.latency
  /\ p.error_rate = ANOMALY_VALUES.error_rate
  /\ p.drift_user_region = ANOMALY_VALUES.drift_user_region

BaselineShaped(p) ==
  /\ p.latency = BASELINE_MODEL.latency_ms
  /\ p.error_rate = INITIAL_METRICS_STATE.error_rate
  /\ p.drift_user_region = INITIAL_METRICS_STATE.user_region

\* C23: a live sample is anomaly-shaped if its tickIndex is at least 3 and
\* baseline-shaped otherwise, the warm-up samples are baseline-shaped, and
\* the tickIndex of an appended sample is the one of the render that
\* produced it.
C23_ShapeByTickIndex ==
  /\ [](\A i \in 1..Len(metrics) :
          /\ AnomalyShaped(metrics[i]) \/ BaselineShaped(metrics[i])
          /\ AnomalyShaped(metrics[i]) <=>
               (metrics[i].live /\ metrics[i].tick >= ANOMALY_TICK_INDEX))
  /\ [][SampleAppended =>
          LET last == metrics'[Len(metrics')]
          IN /\ last.live /\ last.tick = tickIndex'
             /\ AnomalyShaped(last) <=> tickIndex' >= ANOMALY_TICK_INDEX]_vars

\* C23 witness: after a replay in ANOMALY_DETECTED the sample of tick 2 is
\* baseline-shaped; the anomaly-shaped ones of the run before are gone.
C23_Witness ==
  /\ replays = 1 /\ phase = ANOMALY_DETECTED /\ tickIndex = 2
  /\ Len(metrics) = WarmupCount + 3
  /\ metrics[Len(metrics)].live /\ BaselineShaped(metrics[Len(metrics)])

IsAdvisory(m) == m.text \in {"alert", "detail", "recommendation"}

\* The advisory messages among the agent messages, in their order there.
Advisories == SelectSeq(messages, IsAdvisory)

\* Summary, then quantified detail, then recommendation.
AdvisoryOrder == <<"alert", "detail", "recommendation">>

\* C24: the advisory messages of an anomaly confirmation are, in the message
\* sequence, the summary, then the detail, then the recommendation, which
\* carries confidence 83 and risk High; none is there before the
\* confirmation, and all three appear after it.
C24_AdvisoryOrder ==
  /\ [](/\ Len(Advisories) <= 3 * Len(anomalyTicks)
        /\ \A i \in 1..Len(Advisories) :
             /\ Advisories[i].text = AdvisoryOrder[i]
             /\ Advisories[i].text = "recommendation" =>
                  /\ Advisories[i].confidence = <<DefaultConfidence>>
                  /\ Advisories[i].risk = "High")
  /\ (Len(anomalyTicks) = 1) ~> (Len(Advisories) = 3)

\* C24 witness: all three advisory messages have appeared, the operator's
\* "continue" acknowledgement between the detail and the recommendation.
C24_Witness ==
  /\ Len(Advisories) = 3 /\ Len(messages) >= 3
  /\ messages[Len(messages)].text = "recommendation"
  /\ messages[Len(messages) - 1].text = "continuing rollout"
  /\ messages[Len(messages) - 2].text = "detail"

\* C25: recommendationTimeout (timedOut) holds in ANOMALY_DETECTED only, and
\* it is false right after continueRollout and right after confirmRollback.
C25_TimedOutOnlyInAnomaly ==
  /\ [](recommendationTimeout => phase = ANOMALY_DETECTED)
  /\ [][(continues' # continues \/ ConfirmRollback) =>
          ~recommendationTimeout']_vars

\* C25 witness: the 60 s timer had fired, and the operator's continueRollout
\* has cleared the flag.
C25_Witness ==
  /\ phase = ANOMALY_DETECTED /\ continues = 1
  /\ ~timeoutTimer /\ ~recommendationTimeout

\* C26: while the rollback prompt is open no sample is appended, the anomaly
\* branch does not run and recommendationTimeout does not change; the
\* prompt's Cancel leaves the phase ANOMALY_DETECTED and adds no log entry
\* and no message.
C26_PromptFreezesSession ==
  [][/\ (showRollbackModal /\ showRollbackModal') =>
          /\ metrics' = metrics
          /\ anomalyTicks' = anomalyTicks
          /\ recommendationTimeout' = recommendationTimeout
     /\ CancelRollback =>
          /\ phase' = ANOMALY_DETECTED
          /\ logs' = logs /\ messages' = messages]_vars

\* C27: startCanary logs the rollout start with the split (100 - p) / p of
\* the chosen canaryPercent p.
C27_LoggedSplitFollowsPercent ==
  [][StartCanary =>
       /\ logs'[1].event = "Canary Rollout Started"
       /\ logs'[1].split = <<100 - canaryPercent, canaryPercent>>]_vars

\* C28: no state has the phase MONITORING and an anomaly-shaped sample in
\* the history (the anomaly is confirmed whatever outages came before).
C28_AnomalyNeverMissed ==
  ~(/\ phase = MONITORING
    /\ \E i \in 1..Len(metrics) : AnomalyShaped(metrics[i]))

\* The position of a phase in the order of the release.
PhaseRank(p) ==
  CASE p = IDLE -> 0
    [] p = SHADOW_TEST -> 1
    [] p = CANARY_SETUP -> 2
    [] p = MONITORING -> 3
    [] p = ANOMALY_DETECTED -> 4
    [] p = ROLLBACK_CONFIRM -> 5
    [] p = ROLLED_BACK -> 6

\* C29: the phase only moves forward in the order IDLE, SHADOW_TEST,
\* CANARY_SETUP, MONITORING, ANOMALY_DETECTED, ROLLED_BACK; IDLE is never
\* re-entered and ROLLED_BACK is never left, not by a replay either.
C29_PhaseMonotone ==
  [][/\ PhaseRank(phase') >= PhaseRank(phase)
     /\ phase # IDLE => phase' # IDLE
     /\ phase = ROLLED_BACK => phase' = ROLLED_BACK
     /\ (replays' # replays) => phase' = phase]_vars

\* C29 witness: a replay after the rollback, its interval ticking, the
\* phase still ROLLED_BACK.
C29_Witness ==
  /\ phase = ROLLED_BACK /\ replays = 1 /\ tickIndex = 1
  /\ logs[1].event = "Replay"

\* C30: the history is empty in IDLE, SHADOW_TEST and CANARY_SETUP and holds
\* 10 to 30 samples from MONITORING on, so the rollback prompt always has a
\* last sample to show.
C30_HistorySizeByPhase ==
  /\ phase \in {IDLE, SHADOW_TEST, CANARY_SETUP} => metrics = <<>>
  /\ phase \in {MONITORING, ANOMALY_DETECTED, ROLLED_BACK} =>
       WarmupCount <= Len(metrics) /\ Len(metrics) <= HistoryCapacity
  /\ phase \in AppPhase
  /\ showRollbackModal => metrics # <<>>

\* C30 witness: the rollback prompt is open over a full history.
C30_Witness ==
  showRollbackModal /\ Len(metrics) = HistoryCapacity

====
